---- MODULE Spec2Model ----
(***************************************************************************)
(* dotenv-push: one run of the CLI (main: parseCliArgs, the env input, the  *)
(* provider function pushToConvex via the Convex CLI or pushToVercel via   *)
(* the Vercel SDK, the exit code) against the provider's                   *)
(* environment-variable store, optionally followed by a second run with    *)
(* the same command line on the resulting store, or accompanied by a       *)
(* second process that runs the same provider function on the same scope.  *)
(***************************************************************************)
EXTENDS Integers, Sequences, FiniteSets, TLC

VARIABLES
  provider,           \* the provider whose store the run addresses: "convex" | "vercel"
  envVars,            \* the mapping the env input denotes, as Object.entries: sequence of [key, value]
  target,             \* --target as given; options.target once parseCliArgs has normalized it
  skipConfirmation,   \* options.skipConfirmation
  convexEnv,          \* the Convex deployment's variables: name -> value | NoVal
  vercelEnvs,         \* the Vercel project's env entries (all targets)
  pc,                 \* position of the run inside the provider function
  customEnvironmentId,\* pushToVercel local
  currentEnvKeys,     \* pushToConvex local (a Set, kept in insertion order)
  keysToRemove,       \* pushToConvex local
  targetEnvs,         \* pushToVercel local
  idx,                \* loop index of the running for-loop
  calls,              \* provider calls issued by this run, in order
  answer,             \* what the confirmation prompt returned, NoAnswer before
  prompts,            \* the prompt() calls of this run, in order
  warnings,           \* console.warn lines printed by the remove phase
  outcome,            \* "running" | "success" | "cancelled" | "failed"
  error,              \* the error the provider function threw
  summary,            \* the totals the run printed
  runNo,              \* 1 for the first run, 2 for the immediate second run
  prev,               \* how the first run ended (read by the second run's claims)
  args,               \* what parseArgs returns for process.argv
  host,               \* the process environment and the files and stdin of the machine
  invoked,            \* the provider function main has called, "none" before
  exitCode,           \* <<>> while the process runs, then <<code>>
  helpShown,          \* showHelp has printed
  reads,              \* the inputs read so far: stdin, envFile, project.json, VERCEL_TOKEN
  projectId,          \* pushToVercel local
  token,              \* pushToVercel local
  peer                \* a second dotenv-push process on the same scope: its position and locals

\* the state of main
mainVars == <<args, host, peer, invoked, exitCode, helpShown, reads>>

\* the locals pushToVercel builds its client from
clientVars == <<projectId, token>>

vars == <<provider, envVars, target, skipConfirmation, convexEnv, vercelEnvs,
          pc, customEnvironmentId, currentEnvKeys, keysToRemove, targetEnvs,
          idx, calls, answer, prompts, warnings, outcome, error, summary,
          runNo, prev, args, host, invoked, exitCode, helpShown, reads,
          projectId, token, peer>>

(***************************************************************************)
(* Bounds of the model                                                     *)
(***************************************************************************)
MaxKeys == 2        \* most entries of the desired mapping
MaxEntries == 2     \* most entries of the Vercel project before the run

(***************************************************************************)
(* Data                                                                    *)
(***************************************************************************)
Names == {"API_KEY", "DB_URL", "OLD_VAR"}

\* further names, for the classification of a variable by its name
MoreNames == {"DB_SECRET", "AUTH_TOKEN", "api_key"}

VarNames == Names \cup MoreNames
Values == {"x", "k=v"}
NoVal == "<absent>"
NoAnswer == "<none>"
NoId == <<>>

KNOWN_VERCEL_TARGETS == {"production", "preview", "development"}
Targets == {"production", "Preview", "Staging", "qa"}

\* String.prototype.toLowerCase on the strings the run handles
ToLowerCase(s) ==
  CASE s = "YES" -> "yes"
    [] s = "Preview" -> "preview"
    [] s = "Staging" -> "staging"
    [] s = "Vercel" -> "vercel"
    [] OTHER -> s

\* String.prototype.includes(needle) on the strings the run handles
Includes(s, needle) ==
  CASE s = "API_KEY" -> needle \in {"KEY"}
    [] s = "DB_SECRET" -> needle \in {"SECRET"}
    [] s = "AUTH_TOKEN" -> needle \in {"TOKEN"}
    [] s = "api_key" -> needle \in {"key"}
    [] s = "you are not logged in" -> needle \in {"not logged in"}
    [] s = "authentication required" -> needle \in {"auth"}
    [] s = "No convex.json found" -> needle \in {"No convex.json"}
    [] s = "fetch failed: auth-app.convex.cloud unreachable" -> needle \in {"auth"}
    [] s = "variable is used in auth.config.ts" -> needle \in {"is used in", "auth"}
    [] s = "update your config file" -> needle \in {"config file"}
    [] OTHER -> FALSE

Range(s) == {s[i] : i \in 1..Len(s)}

\* Object.keys(envVars)
Keys(ev) == [i \in 1..Len(ev) |-> ev[i].key]

KeySet(ev) == {ev[i].key : i \in 1..Len(ev)}

\* an iteration that starts from the last property
EntriesReversed(ev) == [i \in 1..Len(ev) |-> ev[Len(ev) + 1 - i]]

\* Object.entries(envVars): the properties in insertion order
Entries(ev) == ev

\* the desired mapping as a set of <<name, value>> pairs
Desired(ev) == {<<ev[i].key, ev[i].value>> : i \in 1..Len(ev)}

\* the envVars a caller passes: distinct keys, at most MaxKeys of them (the
\* entries of one input share their value: no step compares two values)
EnvVarsInputs ==
  {ev \in UNION {[1..n -> [key : Names, value : Values]] : n \in 0..MaxKeys} :
     \A i, j \in 1..Len(ev) : /\ ev[i].key = ev[j].key => i = j
                              /\ ev[i].value = ev[j].value}

NoError == [kind |-> "none", msg |-> "", key |-> ""]
Err(kind, msg, key) == [kind |-> kind, msg |-> msg, key |-> key]
ConfigError(msg) == Err("ConfigError", msg, "")

\* the totals printed at the end of a run; removedLine: the "removed" line was printed
NoSummary == [countSet |-> 0, countRemoved |-> 0, removedLine |-> FALSE]

\* one provider call: the operation, the variable name and entry id it was
\* given, whether it succeeded, and the message of its failure
Call(op, key, id, ok) == [op |-> op, key |-> key, id |-> id, ok |-> ok, stderr |-> ""]

\* a provider call that failed with the message stderr
FailedCall(op, key, id, stderr) ==
  [op |-> op, key |-> key, id |-> id, ok |-> FALSE, stderr |-> stderr]


(***************************************************************************)
(* JavaScript values, as far as the type guards look at them               *)
(***************************************************************************)
JsUndefined == [type |-> "undefined", v |-> ""]
JsNull == [type |-> "null", v |-> ""]
JsNumber == [type |-> "number", v |-> "123"]
JsString(str) == [type |-> "string", v |-> str]

\* !value
Falsy(value) ==
  \/ value.type \in {"undefined", "null"}
  \/ value.type = "string" /\ value.v = ""

(***************************************************************************)
(* The command line                                                        *)
(***************************************************************************)
SUPPORTED_PROVIDERS == <<"vercel", "convex">>

\* a guard that compares the name whatever its case
isSupportedProviderAnyCase(value) ==
  value.type = "string" /\ ToLowerCase(value.v) \in Range(SUPPORTED_PROVIDERS)

\* typeof value === 'string' && SUPPORTED_PROVIDERS.includes(value)
isSupportedProvider(value) ==
  value.type = "string" /\ value.v \in Range(SUPPORTED_PROVIDERS)

\* lowercase for the known targets, a custom name as given
normalizeTarget(env) ==
  LET lower == ToLowerCase(env)
  IN  IF lower \in KNOWN_VERCEL_TARGETS THEN lower ELSE env

\* what parseArgs returns: values.help, positionals[0], values.project,
\* values.token, values.stdin (an option not given is "")
Args(help, providerInput, project, tokenArg, stdin) ==
  [help |-> help, providerInput |-> providerInput, project |-> project,
   token |-> tokenArg, stdin |-> stdin]

\* the first positional argument: none, empty, unsupported names, or p
ProviderInputs(p) ==
  {JsUndefined, JsString(""), JsString("aws"), JsString("Vercel"), JsString(p)}

(***************************************************************************)
(* The machine: VERCEL_TOKEN, .vercel/project.json, stdin, the env file    *)
(***************************************************************************)
\* the value JSON.parse returns for .vercel/project.json: an object with or
\* without the property projectId, or null
JsObject(hasProjectId, id) == [type |-> "object", hasProjectId |-> hasProjectId, projectId |-> id]
NoObject == [type |-> "null", hasProjectId |-> FALSE, projectId |-> JsUndefined]

\* .vercel/project.json: what readFileSync does, what JSON.parse does, the value
ProjectFile(read, parse, value) == [read |-> read, parse |-> parse, value |-> value]

ProjectFiles ==
  { ProjectFile("ENOENT", "", NoObject),
    ProjectFile("EACCES", "", NoObject),
    ProjectFile("ok", "SyntaxError", NoObject),
    ProjectFile("ok", "ok", NoObject),
    ProjectFile("ok", "ok", JsObject(FALSE, JsUndefined)),
    ProjectFile("ok", "ok", JsObject(TRUE, JsNumber)),
    ProjectFile("ok", "ok", JsObject(TRUE, JsString(""))),
    ProjectFile("ok", "ok", JsObject(TRUE, JsString("prj_file"))) }

\* stdin as main receives it: nothing, blank, dotenv text, or a stream error
StdinContents == {"", " \n", "<dotenv>", "<error>"}

Host(envToken, projectFile, stdinContent, envFile) ==
  [VERCEL_TOKEN |-> envToken, projectFile |-> projectFile,
   stdinContent |-> stdinContent, envFile |-> envFile]

\* a guard that only asks for the property
isVercelProjectConfigLoose(obj) == obj.type = "object" /\ obj.hasProjectId

\* typeof obj === 'object' && obj !== null && 'projectId' in obj &&
\* typeof obj.projectId === 'string'
isVercelProjectConfig(obj) ==
  /\ obj.type = "object"
  /\ obj.hasProjectId
  /\ obj.projectId.type = "string"

\* getProjectIdFromFile: the project id, or the ConfigError it throws
getProjectIdFromFile(file) ==
  IF file.read # "ok" \/ file.parse # "ok"
  THEN [projectId |-> "",
        error |-> ConfigError("Failed to read project ID from .vercel/project.json")]
  ELSE IF ~isVercelProjectConfig(file.value)
       THEN [projectId |-> "",
             error |-> ConfigError("Invalid .vercel/project.json: missing or invalid projectId")]
       ELSE [projectId |-> file.value.projectId.v, error |-> NoError]

(***************************************************************************)
(* Convex: the CLI's `env list` output and its parsing                     *)
(***************************************************************************)
NameOrder == <<"API_KEY", "DB_URL", "OLD_VAR", "DB_SECRET", "AUTH_TOKEN", "api_key">>

\* a value as the characters that matter to split('='): its "=" separated parts
ValueTokens(v) == IF v = "k=v" THEN <<"k", "=", "v">> ELSE <<v>>

\* one output line NAME=value, as tokens
FormatLine(n, v) == <<n, "=">> \o ValueTokens(v)

\* stdout of `npx convex env list`: one line per variable, newline-terminated,
\* so split('\n') ends with an empty line
ConvexEnvList(env) ==
  LET present == SelectSeq(NameOrder, LAMBDA n : env[n] # NoVal)
  IN  [i \in 1..Len(present) |-> FormatLine(present[i], env[present[i]])] \o << <<>> >>

\* String.prototype.trim on a key
Trim(s) == IF s \in {" ", " \n"} THEN "" ELSE s

\* a parser that takes what follows the last '=' instead
LineKeyTail(line) == Trim(line[Len(line)])

\* line.split('=')[0].trim(): what precedes the first '=' of the line
LineKey(line) ==
  LET i == CHOOSE k \in 1..Len(line) : line[k] = "=" /\ \A j \in 1..(k - 1) : line[j] # "="
  IN  IF i = 1 THEN "" ELSE Trim(line[1])

\* new Set(array): first occurrences, in insertion order
RECURSIVE NewSet(_)
NewSet(s) ==
  IF s = <<>> THEN <<>>
  ELSE LET front == NewSet(SubSeq(s, 1, Len(s) - 1))
           last == s[Len(s)]
       IN  IF last \in Range(front) THEN front ELSE Append(front, last)

\* currentEnvKeys of pushToConvex
ParseEnvKeys(output) ==
  LET currentEnvLines == SelectSeq(output, LAMBDA line : "=" \in Range(line))
  IN  NewSet([i \in 1..Len(currentEnvLines) |-> LineKey(currentEnvLines[i])])

\* a plan that forgets to spare the desired keys
KeysToRemoveAll(current, ev) == SelectSeq(current, LAMBDA key : key # "")

\* a plan that removes nothing
KeysToRemoveNone(current, ev) == <<>>

\* keysToRemove of pushToConvex
KeysToRemove(current, ev) ==
  SelectSeq(current, LAMBDA key : key # "" /\ key \notin KeySet(ev))

\* the action printed for a key in the plan: 'update' or 'create'
PlanAction(current, key) == IF key \in Range(current) THEN "update" ELSE "create"

(***************************************************************************)
(* The confirmation prompt                                                 *)
(***************************************************************************)
\* what prompt() can resolve to (already trimmed)
Answers == {"yes", "YES", "y", "no", ""}



\* a comparison that also takes "y" for consent
DeclinedLoose(confirmation) == ToLowerCase(confirmation) \notin {"yes", "y"}

\* a run that asks for confirmation whatever the option says
NeedsConfirmationAlways(skip) == TRUE

\* if (!skipConfirmation): the plan is shown and the operator is asked
NeedsConfirmation(skip) == ~skip

\* confirmation.toLowerCase() !== 'yes'
Declined(confirmation) == ToLowerCase(confirmation) # "yes"

(***************************************************************************)
(* Ending a run                                                            *)
(***************************************************************************)
Throw(e) ==
  /\ pc' = "done"
  /\ outcome' = "failed"
  /\ error' = e

Return(result) ==
  /\ pc' = "done"
  /\ outcome' = result
  /\ error' = NoError

(***************************************************************************)
(* pushToConvex                                                            *)
(***************************************************************************)
ListErrors == {"you are not logged in", "authentication required",
               "No convex.json found", "network unreachable",
               "fetch failed: auth-app.convex.cloud unreachable"}

\* a catch block that classifies nothing
ListFailureUnclassified(stderr) ==
  Err("ConvexApiError", "Failed to list environment variables", "")

\* the error thrown for a failed `env list`
ListFailure(stderr) ==
  IF Includes(stderr, "not logged in") \/ Includes(stderr, "auth")
  THEN ConfigError("Not logged in to Convex")
  ELSE IF Includes(stderr, "No convex.json")
       THEN ConfigError("No convex.json found")
       ELSE Err("ConvexApiError", "Failed to list environment variables", "")

\* Object.keys(envVars).length === 0, before anything else
ConvexCheckEmpty ==
  /\ provider = "convex"
  /\ pc = "start"
  /\ IF Len(envVars) = 0
     THEN Throw(ConfigError("No environment variables provided"))
     ELSE /\ pc' = "list"
          /\ UNCHANGED <<outcome, error>>
  /\ UNCHANGED <<provider, envVars, target, skipConfirmation, convexEnv, vercelEnvs,
                 customEnvironmentId, currentEnvKeys, keysToRemove, targetEnvs,
                 idx, calls, answer, prompts, warnings, summary, runNo, prev>>
  /\ UNCHANGED <<mainVars, clientVars>>

\* `npx convex env list`, then the plan
ConvexList ==
  /\ provider = "convex"
  /\ pc = "list"
  /\ \/ \E stderr \in ListErrors :
          /\ calls' = Append(calls, FailedCall("list", "", NoId, stderr))
          /\ Throw(ListFailure(stderr))
          /\ UNCHANGED <<currentEnvKeys, keysToRemove, idx>>
     \/ /\ calls' = Append(calls, Call("list", "", NoId, TRUE))
        /\ currentEnvKeys' = ParseEnvKeys(ConvexEnvList(convexEnv))
        /\ keysToRemove' = KeysToRemove(currentEnvKeys', envVars)
        /\ idx' = 1
        /\ pc' = IF NeedsConfirmation(skipConfirmation) THEN "confirm" ELSE "set"
        /\ UNCHANGED <<outcome, error>>
  /\ UNCHANGED <<provider, envVars, target, skipConfirmation, convexEnv, vercelEnvs,
                 customEnvironmentId, targetEnvs, answer, prompts, warnings, summary,
                 runNo, prev>>
  /\ UNCHANGED <<mainVars, clientVars>>

\* await prompt('Proceed with deployment? (yes/no): ')
ConvexConfirm ==
  /\ provider = "convex"
  /\ pc = "confirm"
  /\ prompts' = Append(prompts, "confirm")
  /\ \/ \E a \in Answers :
          /\ answer' = a
          /\ IF Declined(a)
             THEN Return("cancelled")
             ELSE /\ pc' = "set"
                  /\ UNCHANGED <<outcome, error>>
     \/ /\ Throw(Err("ConvexApiError", "Failed to deploy to Convex", ""))
        /\ UNCHANGED answer
  /\ UNCHANGED <<provider, envVars, target, skipConfirmation, convexEnv, vercelEnvs,
                 customEnvironmentId, currentEnvKeys, keysToRemove, targetEnvs,
                 idx, calls, warnings, summary, runNo, prev>>
  /\ UNCHANGED <<mainVars, clientVars>>

\* the closing console.log lines of pushToConvex
ConvexSummary(toSet, toRemove) ==
  [countSet |-> Len(toSet),
   countRemoved |-> Len(toRemove),
   removedLine |-> Len(toRemove) > 0]

ConvexSucceed ==
  /\ Return("success")
  /\ summary' = ConvexSummary(Keys(envVars), keysToRemove)

\* a failure that reaches the outer catch without the key's name
SetFailureUnnamed(key) == Err("ConvexApiError", "Failed to deploy to Convex", "")

\* throw new ConvexApiError(`Failed to set ${key}: ${stderr}`)
SetFailure(key) == Err("ConvexApiError", "Failed to set", key)

\* one iteration of `for (const [key, value] of Object.entries(envVars))`
ConvexSet ==
  /\ provider = "convex"
  /\ pc = "set"
  /\ idx <= Len(envVars)
  /\ LET key == Entries(envVars)[idx].key
         value == Entries(envVars)[idx].value
     IN  \/ /\ calls' = Append(calls, Call("set", key, NoId, FALSE))
            /\ Throw(SetFailure(key))
            /\ UNCHANGED <<convexEnv, idx, summary>>
         \/ /\ calls' = Append(calls, Call("set", key, NoId, TRUE))
            /\ convexEnv' = [convexEnv EXCEPT ![key] = value]
            /\ IF idx < Len(envVars)
               THEN /\ idx' = idx + 1
                    /\ UNCHANGED <<pc, outcome, error, summary>>
               ELSE IF Len(keysToRemove) > 0
                    THEN /\ idx' = 1
                         /\ pc' = "remove"
                         /\ UNCHANGED <<outcome, error, summary>>
                    ELSE /\ ConvexSucceed
                         /\ UNCHANGED idx
  /\ UNCHANGED <<provider, envVars, target, skipConfirmation, vercelEnvs,
                 customEnvironmentId, currentEnvKeys, keysToRemove, targetEnvs,
                 answer, prompts, warnings, runNo, prev>>
  /\ UNCHANGED <<mainVars, clientVars>>

RemoveErrors == {"variable is used in auth.config.ts", "update your config file",
                 "network unreachable"}

\* the console.warn line for a failed removal
RemoveWarning(key, stderr) ==
  IF Includes(stderr, "is used in") \/ Includes(stderr, "config file")
  THEN [key |-> key, text |-> "Cannot remove - it is required by Convex config"]
  ELSE [key |-> key, text |-> "Failed to remove"]

\* a loop that ends with the totals after its first removal
RemoveNextSkipsRest ==
  /\ ConvexSucceed
  /\ UNCHANGED idx

\* a loop that has the store listed again after each removal
RemoveNextRelists ==
  /\ pc' = "list"
  /\ UNCHANGED <<idx, outcome, error, summary>>

\* the loop goes on to the next key, or the run ends with the totals
RemoveNext ==
  IF idx < Len(keysToRemove)
  THEN /\ idx' = idx + 1
       /\ UNCHANGED <<pc, outcome, error, summary>>
  ELSE /\ ConvexSucceed
       /\ UNCHANGED idx

\* a catch block that rethrows instead of warning
RemoveFailedThrows(key, stderr) ==
  /\ Throw(Err("ConvexApiError", "Failed to remove", key))
  /\ UNCHANGED <<warnings, idx, summary>>

\* a catch block that classifies the failure the way the list's does
RemoveFailedAsConfig(key, stderr) ==
  /\ Throw(ConfigError("Not logged in to Convex"))
  /\ UNCHANGED <<warnings, idx, summary>>

\* a catch block that warns and leaves the loop on the key that failed
RemoveFailedRetries(key, stderr) ==
  /\ warnings' = Append(warnings, RemoveWarning(key, stderr))
  /\ UNCHANGED <<idx, pc, outcome, error, summary>>

\* the catch block of a removal: console.warn, and the loop goes on
RemoveFailed(key, stderr) ==
  /\ warnings' = Append(warnings, RemoveWarning(key, stderr))
  /\ RemoveNext

\* one iteration of `for (const key of keysToRemove)`
ConvexRemove ==
  /\ provider = "convex"
  /\ pc = "remove"
  /\ idx <= Len(keysToRemove)
  /\ LET key == keysToRemove[idx]
     IN  \/ \E stderr \in RemoveErrors :
               /\ calls' = Append(calls, Call("remove", key, NoId, FALSE))
               /\ RemoveFailed(key, stderr)
               /\ UNCHANGED convexEnv
         \/ /\ calls' = Append(calls, Call("remove", key, NoId, TRUE))
            /\ convexEnv' = [convexEnv EXCEPT ![key] = NoVal]
            /\ RemoveNext
            /\ UNCHANGED warnings
  /\ UNCHANGED <<provider, envVars, target, skipConfirmation, vercelEnvs,
                 customEnvironmentId, currentEnvKeys, keysToRemove, targetEnvs,
                 answer, prompts, runNo, prev>>
  /\ UNCHANGED <<mainVars, clientVars>>

(***************************************************************************)
(* Vercel: the project's env entries                                       *)
(***************************************************************************)
\* env.target is an array of targets or a single target string
Arr(items) == [isArray |-> TRUE, items |-> items]
Str(item) == [isArray |-> FALSE, items |-> {item}]

\* the custom environments of the project (id and slug)
CustomEnvironments == <<[id |-> "env_stg", slug |-> "staging"]>>

Entry(id, key, value, tgt, custom, type) ==
  [id |-> id, key |-> key, value |-> value, target |-> tgt,
   customEnvironmentIds |-> custom, type |-> type]

\* the shapes of entry a project holds before the run
EntryShapes ==
  { [name |-> "prod",     target |-> Arr({"production"}),            custom |-> {},          hasId |-> TRUE],
    [name |-> "prodprev", target |-> Arr({"production", "preview"}), custom |-> {},          hasId |-> TRUE],
    [name |-> "prev",     target |-> Arr({"preview"}),               custom |-> {},          hasId |-> TRUE],
    [name |-> "prodstr",  target |-> Str("production"),              custom |-> {},          hasId |-> TRUE],
    [name |-> "stg",      target |-> Arr({}),                        custom |-> {"env_stg"}, hasId |-> TRUE],
    [name |-> "noid",     target |-> Arr({"production"}),            custom |-> {},          hasId |-> FALSE] }

\* the keys the project holds before the run
StoredNames == {"DB_URL", "OLD_VAR"}

InitialEntries ==
  { Entry(IF sh.hasId THEN <<"e", k, sh.name>> ELSE NoId, k, "x", sh.target, sh.custom, "plain") :
      k \in StoredNames, sh \in EntryShapes }

\* the environments an entry is served in, as the provider sees it
ServedIn(env) == env.target.items \cup env.customEnvironmentIds

\* a project never holds one key twice for the same environment
WellFormed(envs) ==
  \A a, b \in envs : (a # b /\ a.key = b.key) => ServedIn(a) \cap ServedIn(b) = {}

VercelStores ==
  {envs \in SUBSET InitialEntries : Cardinality(envs) <= MaxEntries /\ WellFormed(envs)}

\* the scope a target names: a known target, or the id of the custom
\* environment whose slug it is ("" when there is none)
ScopeOf(t) ==
  LET lower == ToLowerCase(t)
      hits == SelectSeq(CustomEnvironments, LAMBDA c : ToLowerCase(c.slug) = lower)
  IN  IF lower \in KNOWN_VERCEL_TARGETS THEN lower
      ELSE IF hits = <<>> THEN "" ELSE hits[1].id

\* the entries of the store that the provider serves in the scope
InScope(envs, scope) == {e \in envs : scope \in ServedIn(e)}

\* the entries of a set in the order the provider lists them
Listed(S) == CHOOSE q \in [1..Cardinality(S) -> S] : Range(q) = S

(***************************************************************************)
(* pushToVercel                                                            *)
(***************************************************************************)
IsKnownTarget(t) == ToLowerCase(t) \in KNOWN_VERCEL_TARGETS

\* a filter that keeps every entry of the project
InTargetEnvsAny(env, t, customId) == TRUE

\* the filter that selects targetEnvs from currentEnvs.envs
InTargetEnvs(env, t, customId) ==
  IF IsKnownTarget(t)
  THEN /\ env.target.isArray
       /\ ToLowerCase(t) \in {ToLowerCase(x) : x \in env.target.items}
  ELSE /\ customId # ""
       /\ customId \in env.customEnvironmentIds

\* targetEnvs: currentEnvs.envs filtered
TargetEnvs(envs, t, customId) ==
  SelectSeq(envs, LAMBDA env : InTargetEnvs(env, t, customId))

\* a classification that ignores the case of the name
IsSecretAnyCase(key) ==
  \/ Includes(key, "KEY") \/ Includes(key, "SECRET") \/ Includes(key, "TOKEN")
  \/ Includes(key, "key") \/ Includes(key, "secret") \/ Includes(key, "token")

\* key.includes('KEY') || key.includes('SECRET') || key.includes('TOKEN')
IsSecret(key) ==
  Includes(key, "KEY") \/ Includes(key, "SECRET") \/ Includes(key, "TOKEN")

\* one element of requestBody
RequestItem(kv, t, customId) ==
  IF IsKnownTarget(t)
  THEN [key |-> kv.key, value |-> kv.value, target |-> {ToLowerCase(t)},
        customEnvironmentIds |-> {}, type |-> IF IsSecret(kv.key) THEN "encrypted" ELSE "plain"]
  ELSE [key |-> kv.key, value |-> kv.value, target |-> {},
        customEnvironmentIds |-> {customId}, type |-> IF IsSecret(kv.key) THEN "encrypted" ELSE "plain"]

RequestBody(ev, t, customId) == [i \in 1..Len(ev) |-> RequestItem(ev[i], t, customId)]

\* createProjectEnv with upsert 'true', one item: the entry of that key served
\* in the item's environment is overwritten, otherwise a new entry is created
UpsertItem(envs, item) ==
  LET where == item.target \cup item.customEnvironmentIds
      old == {e \in envs : e.key = item.key /\ ServedIn(e) \cap where # {}}
  IN  IF old # {}
      THEN (envs \ old) \cup {[e EXCEPT !.value = item.value, !.type = item.type] : e \in old}
      ELSE envs \cup {Entry(<<"new", item.key, CHOOSE w \in where : TRUE>>, item.key,
                            item.value, Arr(item.target), item.customEnvironmentIds,
                            item.type)}

RECURSIVE UpsertAll(_, _)
UpsertAll(envs, body) ==
  IF body = <<>> THEN envs
  ELSE UpsertAll(UpsertItem(envs, Head(body)), Tail(body))

\* let projectId = options.projectId, else getProjectIdFromFile()
VercelProjectId ==
  /\ provider = "vercel"
  /\ pc = "start"
  /\ IF args.project # ""
     THEN /\ projectId' = args.project
          /\ pc' = "token"
          /\ UNCHANGED <<outcome, error, reads>>
     ELSE /\ reads' = reads \cup {"project.json"}
          /\ LET fromFile == getProjectIdFromFile(host.projectFile)
             IN  IF fromFile.error # NoError
                 THEN /\ Throw(ConfigError("Project ID is required"))
                      /\ UNCHANGED projectId
                 ELSE /\ projectId' = fromFile.projectId
                      /\ pc' = "token"
                      /\ UNCHANGED <<outcome, error>>
  /\ UNCHANGED <<provider, envVars, target, skipConfirmation, convexEnv, vercelEnvs,
                 customEnvironmentId, currentEnvKeys, keysToRemove, targetEnvs,
                 idx, calls, answer, prompts, warnings, summary, runNo, prev>>
  /\ UNCHANGED <<args, host, peer, invoked, exitCode, helpShown, token>>

\* a lookup that prefers the environment variable
TokenSourceEnvFirst(tokenArg, envToken) ==
  IF envToken # "" THEN "env" ELSE IF tokenArg # "" THEN "arg" ELSE "prompt"

\* where getVercelToken takes the token from
TokenSource(tokenArg, envToken) ==
  IF tokenArg # "" THEN "arg" ELSE IF envToken # "" THEN "env" ELSE "prompt"

\* const token = await getVercelToken(options.token), outside the try block
VercelToken ==
  /\ provider = "vercel"
  /\ pc = "token"
  /\ LET source == TokenSource(args.token, host.VERCEL_TOKEN)
     IN  IF source # "prompt"
         THEN /\ token' = IF source = "arg" THEN args.token ELSE host.VERCEL_TOKEN
              /\ reads' = IF source = "arg" THEN reads ELSE reads \cup {"VERCEL_TOKEN"}
              /\ pc' = "begin"
              /\ UNCHANGED <<outcome, error, prompts>>
         ELSE /\ reads' = reads \cup {"VERCEL_TOKEN"}
              /\ prompts' = Append(prompts, "token")
              /\ \/ \E typed \in {"", "tok_typed"} :
                      /\ token' = typed
                      /\ IF typed = ""
                         THEN Throw(ConfigError("Vercel token is required."))
                         ELSE /\ pc' = "begin"
                              /\ UNCHANGED <<outcome, error>>
                 \/ /\ Throw(Err("Error", "prompt rejected", ""))
                    /\ UNCHANGED token
  /\ UNCHANGED <<provider, envVars, target, skipConfirmation, convexEnv, vercelEnvs,
                 customEnvironmentId, currentEnvKeys, keysToRemove, targetEnvs,
                 idx, calls, answer, warnings, summary, runNo, prev>>
  /\ UNCHANGED <<args, host, peer, invoked, exitCode, helpShown, projectId>>

\* Object.keys(envVars).length === 0, first statement that can throw in the try
VercelCheckEmpty ==
  /\ provider = "vercel"
  /\ pc = "begin"
  /\ IF Len(envVars) = 0
     THEN Throw(ConfigError("No environment variables provided"))
     ELSE /\ pc' = IF IsKnownTarget(target) THEN "list" ELSE "scope"
          /\ UNCHANGED <<outcome, error>>
  /\ UNCHANGED <<provider, envVars, target, skipConfirmation, convexEnv, vercelEnvs,
                 customEnvironmentId, currentEnvKeys, keysToRemove, targetEnvs,
                 idx, calls, answer, prompts, warnings, summary, runNo, prev>>
  /\ UNCHANGED <<mainVars, clientVars>>

\* a lookup that compares the slug with the target as given
FindCustomEnvironmentExact(environments, t) ==
  SelectSeq(environments, LAMBDA c : c.slug = t)

\* environments.find(env => env.slug?.toLowerCase() === normalizedTarget),
\* as the matches in order: find takes the first
FindCustomEnvironment(environments, t) ==
  SelectSeq(environments, LAMBDA c : ToLowerCase(c.slug) = ToLowerCase(t))

\* getV9ProjectsIdOrNameCustomEnvironments and the slug lookup
VercelResolveScope ==
  /\ provider = "vercel"
  /\ pc = "scope"
  /\ \/ /\ calls' = Append(calls, Call("customEnvironments", "", NoId, FALSE))
        /\ Throw(Err("VercelApiError", "Failed to deploy to Vercel", ""))
        /\ UNCHANGED customEnvironmentId
     \/ /\ calls' = Append(calls, Call("customEnvironments", "", NoId, TRUE))
        /\ LET match == FindCustomEnvironment(CustomEnvironments, target)
           IN  IF match = <<>>
               THEN /\ Throw(ConfigError("Custom environment not found"))
                    /\ UNCHANGED customEnvironmentId
               ELSE /\ customEnvironmentId' = match[1].id
                    /\ pc' = "list"
                    /\ UNCHANGED <<outcome, error>>
  /\ UNCHANGED <<provider, envVars, target, skipConfirmation, convexEnv, vercelEnvs,
                 currentEnvKeys, keysToRemove, targetEnvs, idx, answer, prompts,
                 warnings, summary, runNo, prev>>
  /\ UNCHANGED <<mainVars, clientVars>>

\* a run that creates without deleting first
AfterConfirmCreate(envs) == "create"

\* where the run goes after the plan is confirmed (or needs no confirmation)
AfterConfirm(envs) == IF Len(envs) > 0 THEN "remove" ELSE "create"

\* what filterProjectEnvs can fail with: 401, 404, 500
VercelListErrors == {"Not authorized", "Project not found", "Internal server error"}

\* filterProjectEnvs and the filter to targetEnvs
VercelList ==
  /\ provider = "vercel"
  /\ pc = "list"
  /\ \/ \E stderr \in VercelListErrors :
          /\ calls' = Append(calls, FailedCall("list", "", NoId, stderr))
          /\ Throw(Err("VercelApiError", "Failed to deploy to Vercel", ""))
          /\ UNCHANGED <<targetEnvs, idx>>
     \/ /\ calls' = Append(calls, Call("list", "", NoId, TRUE))
        /\ targetEnvs' = TargetEnvs(Listed(vercelEnvs), target, customEnvironmentId)
        /\ pc' = IF NeedsConfirmation(skipConfirmation)
                 THEN "confirm" ELSE AfterConfirm(targetEnvs')
        /\ idx' = 1
        /\ UNCHANGED <<outcome, error>>
  /\ UNCHANGED <<provider, envVars, target, skipConfirmation, convexEnv, vercelEnvs,
                 customEnvironmentId, currentEnvKeys, keysToRemove, answer, prompts,
                 warnings, summary, runNo, prev>>
  /\ UNCHANGED <<mainVars, clientVars>>

\* await prompt('Proceed with reset and deployment? (yes/no): ')
VercelConfirm ==
  /\ provider = "vercel"
  /\ pc = "confirm"
  /\ prompts' = Append(prompts, "confirm")
  /\ \/ \E a \in Answers :
          /\ answer' = a
          /\ IF Declined(a)
             THEN Return("cancelled")
             ELSE /\ pc' = AfterConfirm(targetEnvs)
                  /\ UNCHANGED <<outcome, error>>
     \/ /\ Throw(Err("VercelApiError", "Failed to deploy to Vercel", ""))
        /\ UNCHANGED answer
  /\ UNCHANGED <<provider, envVars, target, skipConfirmation, convexEnv, vercelEnvs,
                 customEnvironmentId, currentEnvKeys, keysToRemove, targetEnvs,
                 idx, calls, warnings, summary, runNo, prev>>
  /\ UNCHANGED <<mainVars, clientVars>>

\* one iteration of `for (const env of targetEnvs)`
VercelRemove ==
  /\ provider = "vercel"
  /\ pc = "remove"
  /\ idx <= Len(targetEnvs)
  /\ LET env == targetEnvs[idx]
         next == /\ idx' = idx + 1
                 /\ pc' = IF idx < Len(targetEnvs) THEN "remove" ELSE "create"
                 /\ UNCHANGED <<outcome, error>>
     IN  IF env.id = NoId
         THEN /\ next
              /\ UNCHANGED <<calls, vercelEnvs>>
         ELSE \/ /\ calls' = Append(calls, Call("remove", env.key, env.id, FALSE))
                 /\ Throw(Err("VercelApiError", "Failed to deploy to Vercel", ""))
                 /\ UNCHANGED <<vercelEnvs, idx>>
              \/ /\ calls' = Append(calls, Call("remove", env.key, env.id, TRUE))
                 /\ vercelEnvs' = {e \in vercelEnvs : e.id # env.id}
                 /\ next
  /\ UNCHANGED <<provider, envVars, target, skipConfirmation, convexEnv,
                 customEnvironmentId, currentEnvKeys, keysToRemove, targetEnvs,
                 answer, prompts, warnings, summary, runNo, prev>>
  /\ UNCHANGED <<mainVars, clientVars>>

\* the closing console.log lines of pushToVercel
VercelSummary(ev) == [countSet |-> Len(ev), countRemoved |-> 0, removedLine |-> FALSE]

\* requestBody and the single createProjectEnv call
VercelCreate ==
  /\ provider = "vercel"
  /\ pc = "create"
  /\ IF ~IsKnownTarget(target) /\ customEnvironmentId = ""
     THEN /\ Throw(ConfigError("Custom environment not found"))
          /\ UNCHANGED <<calls, vercelEnvs, summary>>
     ELSE \/ /\ calls' = Append(calls, Call("create", "", NoId, FALSE))
             /\ Throw(Err("VercelApiError", "Failed to deploy to Vercel", ""))
             /\ UNCHANGED <<vercelEnvs, summary>>
          \/ /\ calls' = Append(calls, Call("create", "", NoId, TRUE))
             /\ vercelEnvs' = UpsertAll(vercelEnvs,
                                        RequestBody(envVars, target, customEnvironmentId))
             /\ Return("success")
             /\ summary' = VercelSummary(envVars)
  /\ UNCHANGED <<provider, envVars, target, skipConfirmation, convexEnv,
                 customEnvironmentId, currentEnvKeys, keysToRemove, targetEnvs,
                 idx, answer, prompts, warnings, runNo, prev>>
  /\ UNCHANGED <<mainVars, clientVars>>

(***************************************************************************)
(* Runs                                                                    *)
(***************************************************************************)
\* the variables the provider serves in the scope of the run
ScopeVars ==
  IF provider = "convex"
  THEN {<<n, convexEnv[n]>> : n \in {m \in VarNames : convexEnv[m] # NoVal}}
  ELSE {<<e.key, e.value>> : e \in InScope(vercelEnvs, ScopeOf(target))}

NoPrev == [outcome |-> "none", warned |-> FALSE, scope |-> {}]

\* the locals of main and of a provider function when the process starts
RunLocals ==
  [pc |-> "main", customEnvironmentId |-> "", currentEnvKeys |-> <<>>,
   keysToRemove |-> <<>>, targetEnvs |-> <<>>, idx |-> 1, calls |-> <<>>,
   answer |-> NoAnswer, prompts |-> <<>>, warnings |-> <<>>,
   outcome |-> "running", error |-> NoError, summary |-> NoSummary,
   invoked |-> "none", exitCode |-> <<>>, helpShown |-> FALSE, reads |-> {},
   projectId |-> "", token |-> ""]

(***************************************************************************)
(* main                                                                    *)
(***************************************************************************)
\* the catch block of main: the message, the help for a ConfigError, exit(1)
MainCatch(e) ==
  /\ Throw(e)
  /\ exitCode' = <<1>>
  /\ helpShown' = (e.kind = "ConfigError")

\* a parser that validates the provider before it looks at --help
ParseHelpLast(a) ==
  IF Falsy(a.providerInput) THEN "missing"
  ELSE IF ~isSupportedProvider(a.providerInput) THEN "unsupported"
  ELSE IF a.help THEN "help" ELSE "ok"

\* the order of the checks of parseCliArgs
ParseResult(a) ==
  IF a.help THEN "help"
  ELSE IF Falsy(a.providerInput) THEN "missing"
  ELSE IF ~isSupportedProvider(a.providerInput) THEN "unsupported"
  ELSE "ok"

\* const args = parseCliArgs()
ParseCliArgs ==
  /\ pc = "main"
  /\ LET result == ParseResult(args)
     IN  CASE result = "help" ->
                /\ Return("help")
                /\ helpShown' = TRUE
                /\ exitCode' = <<0>>
                /\ UNCHANGED target
           [] result = "missing" ->
                /\ MainCatch(ConfigError("Provider is required"))
                /\ UNCHANGED target
           [] result = "unsupported" ->
                /\ MainCatch(ConfigError("Unsupported provider"))
                /\ UNCHANGED target
           [] OTHER ->
                /\ target' = normalizeTarget(target)
                /\ pc' = "input"
                /\ UNCHANGED <<outcome, error, exitCode, helpShown>>
  /\ UNCHANGED <<provider, envVars, skipConfirmation, convexEnv, vercelEnvs,
                 customEnvironmentId, currentEnvKeys, keysToRemove, targetEnvs,
                 idx, calls, answer, prompts, warnings, summary, runNo, prev>>
  /\ UNCHANGED <<args, host, peer, invoked, reads, clientVars>>

\* a check that lets blank input through
StdinEmptyStrict(stdinContent) == stdinContent = ""

\* !stdinContent.trim()
StdinEmpty(stdinContent) == Trim(stdinContent) = ""

\* switch (args.provider): the provider function is called
CallProvider ==
  /\ invoked' = args.providerInput.v
  /\ pc' = "start"
  /\ UNCHANGED <<outcome, error, exitCode, helpShown>>

\* the env input: readStdin and parseEnvFromStdin, or loadEnvVars, and then
\* the call of the provider function
ReadEnvVars ==
  /\ pc = "input"
  /\ IF args.stdin
     THEN /\ reads' = reads \cup {"stdin"}
          /\ IF host.stdinContent = "<error>"
             THEN /\ MainCatch(Err("Error", "stdin error", ""))
                  /\ UNCHANGED invoked
             ELSE IF StdinEmpty(host.stdinContent)
                  THEN /\ MainCatch(ConfigError("No input received from stdin"))
                       /\ UNCHANGED invoked
                  ELSE CallProvider
     ELSE /\ reads' = reads \cup {"envFile"}
          /\ IF host.envFile # "ok"
             THEN /\ MainCatch(Err("EnvLoadError", "Error loading environment variables", ""))
                  /\ UNCHANGED invoked
             ELSE CallProvider
  /\ UNCHANGED <<provider, envVars, target, skipConfirmation, convexEnv, vercelEnvs,
                 customEnvironmentId, currentEnvKeys, keysToRemove, targetEnvs,
                 idx, calls, answer, prompts, warnings, summary, runNo, prev>>
  /\ UNCHANGED <<args, host, peer, clientVars>>

\* an exit that reports every ended run as a success
ExitCodeOfZero(result) == 0

\* the exit code of the process once the provider function has ended: 1 from
\* the catch block of main, 0 when main returns
ExitCodeOf(result) == IF result = "failed" THEN 1 ELSE 0

\* the provider function has returned or thrown, and the process exits
MainExit ==
  /\ pc = "done"
  /\ invoked # "none"
  /\ exitCode = <<>>
  /\ exitCode' = <<ExitCodeOf(outcome)>>
  /\ helpShown' = (outcome = "failed" /\ error.kind = "ConfigError")
  /\ UNCHANGED <<provider, envVars, target, skipConfirmation, convexEnv, vercelEnvs,
                 pc, customEnvironmentId, currentEnvKeys, keysToRemove, targetEnvs,
                 idx, calls, answer, prompts, warnings, outcome, error, summary,
                 runNo, prev>>
  /\ UNCHANGED <<args, host, peer, invoked, reads, clientVars>>

(***************************************************************************)
(* The runs the model starts from                                          *)
(***************************************************************************)
\* the state in which the process starts: the command line, the machine, the
\* mapping the env input denotes, and the provider's store
Start(argSet, hostSet, inputs, convexStores, vercelStores, targetSet) ==
  /\ provider \in Range(SUPPORTED_PROVIDERS)
  /\ args \in argSet
  \* a command line that names a provider of the list names this one
  /\ args.providerInput.v \in Range(SUPPORTED_PROVIDERS) => args.providerInput.v = provider
  /\ host \in hostSet
  /\ envVars \in inputs
  \* the source main does not read is left at its default
  /\ IF args.stdin THEN host.envFile = "ok" ELSE host.stdinContent = ""
  \* an input that cannot be read or holds nothing denotes no variable
  /\ (args.stdin /\ host.stdinContent # "<dotenv>") => envVars = <<>>
  /\ (~args.stdin /\ host.envFile # "ok") => envVars = <<>>
  /\ skipConfirmation \in BOOLEAN
  /\ IF provider = "convex"
     THEN /\ target = "production"
          /\ convexEnv \in convexStores
          /\ vercelEnvs = {}
     ELSE /\ target \in targetSet
          /\ convexEnv = [n \in VarNames |-> NoVal]
          /\ vercelEnvs \in vercelStores
  /\ pc = RunLocals.pc
  /\ customEnvironmentId = RunLocals.customEnvironmentId
  /\ currentEnvKeys = RunLocals.currentEnvKeys
  /\ keysToRemove = RunLocals.keysToRemove
  /\ targetEnvs = RunLocals.targetEnvs
  /\ idx = RunLocals.idx
  /\ calls = RunLocals.calls
  /\ answer = RunLocals.answer
  /\ prompts = RunLocals.prompts
  /\ warnings = RunLocals.warnings
  /\ outcome = RunLocals.outcome
  /\ error = RunLocals.error
  /\ summary = RunLocals.summary
  /\ invoked = RunLocals.invoked
  /\ exitCode = RunLocals.exitCode
  /\ helpShown = RunLocals.helpShown
  /\ reads = RunLocals.reads
  /\ projectId = RunLocals.projectId
  /\ token = RunLocals.token
  /\ runNo = 1
  /\ prev = NoPrev

\* no second process runs
NoPeer == [pc |-> "none", envVars |-> <<>>, plan |-> <<>>, idx |-> 1]

\* the Convex deployments before the run: any of Names, with any value
ConvexStores ==
  {[n \in VarNames |-> IF n \in Names THEN f[n] ELSE NoVal] :
     f \in [Names -> Values \cup {NoVal}]}

\* every store and every desired mapping, under one command line:
\* `dotenv-push <provider> --project prj_1`, the token typed at the prompt
Init ==
  /\ Start({Args(FALSE, JsString(p), "prj_1", "", FALSE) : p \in Range(SUPPORTED_PROVIDERS)},
           {Host("", ProjectFile("ENOENT", "", NoObject), "", "ok")},
           EnvVarsInputs, ConvexStores, VercelStores, Targets)
  /\ peer = NoPeer

\* after a run that reported success the same command is run again, at once,
\* on the store that run left
Rerun ==
  /\ pc = "done"
  /\ outcome = "success"
  /\ exitCode = <<0>>
  /\ runNo = 1
  /\ runNo' = 2
  /\ prev' = [outcome |-> outcome, warned |-> warnings # <<>>, scope |-> ScopeVars]
  /\ pc' = RunLocals.pc
  /\ customEnvironmentId' = RunLocals.customEnvironmentId
  /\ currentEnvKeys' = RunLocals.currentEnvKeys
  /\ keysToRemove' = RunLocals.keysToRemove
  /\ targetEnvs' = RunLocals.targetEnvs
  /\ idx' = RunLocals.idx
  /\ calls' = RunLocals.calls
  /\ answer' = RunLocals.answer
  /\ prompts' = RunLocals.prompts
  /\ warnings' = RunLocals.warnings
  /\ outcome' = RunLocals.outcome
  /\ error' = RunLocals.error
  /\ summary' = RunLocals.summary
  /\ invoked' = RunLocals.invoked
  /\ exitCode' = RunLocals.exitCode
  /\ helpShown' = RunLocals.helpShown
  /\ reads' = RunLocals.reads
  /\ projectId' = RunLocals.projectId
  /\ token' = RunLocals.token
  /\ UNCHANGED <<provider, envVars, target, skipConfirmation, convexEnv, vercelEnvs,
                 args, host, peer>>

Next ==
  \/ ParseCliArgs
  \/ ReadEnvVars
  \/ ConvexCheckEmpty
  \/ ConvexList
  \/ ConvexConfirm
  \/ ConvexSet
  \/ ConvexRemove
  \/ VercelProjectId
  \/ VercelToken
  \/ VercelCheckEmpty
  \/ VercelResolveScope
  \/ VercelList
  \/ VercelConfirm
  \/ VercelRemove
  \/ VercelCreate
  \/ MainExit
  \/ Rerun

Spec == Init /\ [][Next]_vars

(***************************************************************************)
(* Every command line on every machine, against one store per provider     *)
(***************************************************************************)
\* the desired mappings of these runs: none, or one variable of any name
CliEnvVars == {<<>>} \cup {<<[key |-> n, value |-> "x"]>> : n \in VarNames}

CliConvexStores == {[n \in VarNames |-> IF n = "OLD_VAR" THEN "x" ELSE NoVal]}

CliVercelStores ==
  {{Entry(<<"e", "OLD_VAR", "prod">>, "OLD_VAR", "x", Arr({"production"}), {}, "plain"),
    Entry(<<"e", "OLD_VAR", "stg">>, "OLD_VAR", "x", Arr({}), {"env_stg"}, "plain")}}

CliTargets == {"production", "Staging", "qa"}

CliArgs ==
  {Args(help, providerInput, project, tokenArg, stdin) :
     help \in BOOLEAN,
     providerInput \in UNION {ProviderInputs(p) : p \in Range(SUPPORTED_PROVIDERS)},
     project \in {"", "prj_1"}, tokenArg \in {"", "tok_arg"}, stdin \in BOOLEAN}

CliHosts ==
  {Host(envToken, projectFile, stdinContent, envFile) :
     envToken \in {"", "tok_env"}, projectFile \in ProjectFiles,
     stdinContent \in StdinContents, envFile \in {"ok", "ENOENT"}}

\* what a Convex run never looks at is left at its default
CliInit ==
  /\ Start(CliArgs, CliHosts, CliEnvVars, CliConvexStores, CliVercelStores, CliTargets)
  /\ provider = "convex" =>
       /\ args.project = ""
       /\ args.token = ""
       /\ host.VERCEL_TOKEN = ""
       /\ host.projectFile = ProjectFile("ENOENT", "", NoObject)
  /\ peer = NoPeer

CliSpec == CliInit /\ [][Next]_vars

(***************************************************************************)
(* Vocabulary of the properties                                            *)
(***************************************************************************)
Done == pc = "done"

\* positions in calls of the calls of the given operations
CallsOf(ops) == {i \in 1..Len(calls) : calls[i].op \in ops}

FailedCalls(ops) == {i \in CallsOf(ops) : ~calls[i].ok}

\* the list call of this run returned the entries
Planned == \E i \in CallsOf({"list"}) : calls[i].ok

\* the names the run plans to remove
ToRemove ==
  IF provider = "convex"
  THEN Range(keysToRemove)
  ELSE {targetEnvs[i].key : i \in {j \in 1..Len(targetEnvs) : targetEnvs[j].id # NoId}}

\* the spellings of "yes", whatever the case, among the answers
YesAnswers == {"yes", "YES"}

(***************************************************************************)
(* C1 (as claimed): with an empty desired mapping the run makes no list,   *)
(* set/create or remove call, and it ends failed with a ConfigError.       *)
(* pushToVercel breaks it: the token prompt is awaited outside the try     *)
(* block, and its rejection leaves the function as a plain Error.          *)
(***************************************************************************)
C1_EmptyFailsWithConfigError ==
  Len(envVars) = 0 =>
    /\ CallsOf({"list", "set", "create", "remove"}) = {}
    /\ Done => (outcome = "failed" /\ error.kind = "ConfigError")

(***************************************************************************)
(* C2: when the confirmation prompt was answered with anything but "yes"   *)
(* (in any case), the run has ended, cancelled and without error, and it   *)
(* issued no set, create or remove call.                                   *)
(***************************************************************************)
C2_DeclineMutatesNothing ==
  (~skipConfirmation /\ answer # NoAnswer /\ answer \notin YesAnswers) =>
    /\ CallsOf({"set", "create", "remove"}) = {}
    /\ Done
    /\ outcome = "cancelled"
    /\ error = NoError

C2_Witness ==
  /\ provider = "vercel"
  /\ answer = "y"
  /\ Len(targetEnvs) > 0
  /\ outcome = "cancelled"

(***************************************************************************)
(* C3 (as claimed): for both providers no remove call is issued before     *)
(* every upsert of the desired mapping has completed successfully.         *)
(***************************************************************************)
UpsertsCompletedBefore(i) ==
  IF provider = "convex"
  THEN \A k \in KeySet(envVars) :
         \E j \in 1..(i - 1) : calls[j].op = "set" /\ calls[j].key = k /\ calls[j].ok
  ELSE \E j \in 1..(i - 1) : calls[j].op = "create" /\ calls[j].ok

C4_FailedSetAborts ==
  \A i \in FailedCalls({"set"}) :
    /\ i = Len(calls)
    /\ Done
    /\ outcome = "failed"
    /\ error.kind = "ConvexApiError"
    /\ error.key = calls[i].key
    /\ calls[i].key = envVars[i - 1].key
    /\ \A j \in 2..(i - 1) : /\ calls[j] = Call("set", envVars[j - 1].key, NoId, TRUE)
                             /\ convexEnv[envVars[j - 1].key] = envVars[j - 1].value

C4_Witness ==
  /\ Len(envVars) = 2
  /\ Len(keysToRemove) > 0
  /\ Len(calls) = 3
  /\ calls[2].op = "set" /\ calls[2].ok
  /\ calls[3].op = "set" /\ ~calls[3].ok
  /\ convexEnv[envVars[1].key] = envVars[1].value

(***************************************************************************)
(* C5 (as claimed): for both providers a failed remove call never makes    *)
(* the run fail.                                                           *)
(***************************************************************************)
C5_RemoveFailureNeverFails ==
  FailedCalls({"remove"}) # {} => outcome # "failed"

(***************************************************************************)
(* C5 (amended): in pushToConvex a failed remove call is only warned       *)
(* about, the run does not fail and ends in success; in pushToVercel a     *)
(* failed remove call ends the run at once with a VercelApiError, before   *)
(* the create call.                                                        *)
(***************************************************************************)
C5_ConvexWarnsVercelAborts ==
  FailedCalls({"remove"}) # {} =>
    /\ provider = "convex" =>
         /\ outcome # "failed"
         /\ Done => outcome = "success"
         /\ Len(warnings) = Cardinality(FailedCalls({"remove"}))
    /\ provider = "vercel" =>
         /\ Done
         /\ outcome = "failed"
         /\ error.kind = "VercelApiError"
         /\ CallsOf({"create"}) = {}

C5_Witness ==
  /\ provider = "convex"
  /\ Len(keysToRemove) = 2
  /\ FailedCalls({"remove"}) # {}
  /\ Done
  /\ outcome = "success"

(***************************************************************************)
(* C6 (as claimed): for both providers the names passed to remove calls    *)
(* are no keys of the desired mapping, and once the plan is made the names *)
(* to remove are disjoint from the desired keys and, with them, cover      *)
(* every name the scope holds.                                             *)
(***************************************************************************)
NoMutationYet == CallsOf({"set", "create", "remove"}) = {}

ScopeNames == {p[1] : p \in ScopeVars}

C7_OutOfScopeUntouched ==
  provider = "vercel" =>
    /\ \A n \in 1..Len(targetEnvs) : ScopeOf(target) \in ServedIn(targetEnvs[n])
    /\ \A i \in CallsOf({"remove"}) :
         \E n \in 1..Len(targetEnvs) :
           /\ targetEnvs[n].id = calls[i].id
           /\ ScopeOf(target) \in ServedIn(targetEnvs[n])

C7_Witness ==
  /\ provider = "vercel"
  /\ Done
  /\ outcome = "success"
  /\ \E i \in CallsOf({"remove"}) : calls[i].ok
  /\ \E e \in vercelEnvs : e.key \notin KeySet(envVars) /\ ScopeOf(target) \notin ServedIn(e)

(***************************************************************************)
(* C8 (as claimed): after a run that ended in success without a removal    *)
(* warning the scope holds exactly the desired mapping.  pushToVercel      *)
(* breaks it: its filter skips an entry whose target is a single string,   *)
(* and its loop skips an entry without id, so such a variable stays in the *)
(* scope of a run that reports success.                                    *)
(***************************************************************************)
C8_SuccessLeavesExactlyDesired ==
  (Done /\ outcome = "success" /\ warnings = <<>>) => ScopeVars = Desired(envVars)

(***************************************************************************)
(* C9 (as claimed): a second run with the same desired mapping, right      *)
(* after a run that reported success, plans no removal, classifies every   *)
(* desired key as an update and changes no name or value of the scope.     *)
(***************************************************************************)
C9_SecondRunIsNoOp ==
  runNo = 2 =>
    /\ Planned =>
         /\ ToRemove = {}
         /\ provider = "convex" =>
              \A k \in KeySet(envVars) : PlanAction(currentEnvKeys, k) = "update"
    /\ ScopeVars = prev.scope

(***************************************************************************)
(* C9 (amended): when a pushToConvex run ended in success without a        *)
(* removal warning, the second run plans no removal, classifies every      *)
(* desired key as an update and at no step changes a name or value of the  *)
(* deployment.  A second pushToVercel run deletes and re-creates entries;  *)
(* when it ends in success the scope holds the names and values it held    *)
(* after the first run.                                                    *)
(***************************************************************************)
C9_SecondRunRestoresScope ==
  /\ (runNo = 2 /\ provider = "convex" /\ ~prev.warned) =>
       /\ Planned =>
            /\ keysToRemove = <<>>
            /\ \A k \in KeySet(envVars) : PlanAction(currentEnvKeys, k) = "update"
       /\ ScopeVars = prev.scope
       /\ ScopeVars = Desired(envVars)
  /\ (runNo = 2 /\ provider = "vercel" /\ Done /\ outcome = "success") =>
       ScopeVars = prev.scope

C9_Witness ==
  /\ runNo = 2
  /\ provider = "convex"
  /\ ~prev.warned
  /\ Len(envVars) = 2
  /\ Done
  /\ outcome = "success"
  /\ Len(calls) = 3

(***************************************************************************)
(* C10 (as claimed): the totals a successful pushToConvex run prints are   *)
(* the number of desired keys and the number of removals that succeeded.   *)
(* The code prints keysToRemove.length, which counts the removals it has   *)
(* just warned about as well.                                              *)
(***************************************************************************)
C10_SummaryCountsRealRemovals ==
  (provider = "convex" /\ Done /\ outcome = "success") =>
    /\ summary.countSet = Len(envVars)
    /\ summary.countRemoved = Cardinality({i \in CallsOf({"remove"}) : calls[i].ok})

(***************************************************************************)
(* C11 (as claimed): after a successful run of either provider every       *)
(* desired variable is held in the scope as 'encrypted' when its name      *)
(* contains KEY, SECRET or TOKEN in capitals, and as 'plain' otherwise.    *)
(***************************************************************************)
\* the names of the model that contain KEY, SECRET or TOKEN in capitals
SensitiveNames == {"API_KEY", "DB_SECRET", "AUTH_TOKEN"}

\* the classifications under which the scope holds the variable k; the Convex
\* CLI is given a name and a value only, every variable is held alike
StoredClass(k) ==
  IF provider = "vercel"
  THEN {e.type : e \in {x \in InScope(vercelEnvs, ScopeOf(target)) : x.key = k}}
  ELSE IF convexEnv[k] # NoVal THEN {"plain"} ELSE {}

ClassOfName(k) == IF k \in SensitiveNames THEN "encrypted" ELSE "plain"

C11_SensitiveNamesEncrypted ==
  (Done /\ outcome = "success") =>
    \A k \in KeySet(envVars) : StoredClass(k) = {ClassOfName(k)}

(***************************************************************************)
(* C11 (amended): the classification exists in pushToVercel only.  After a *)
(* successful pushToVercel run every desired variable is held in the scope *)
(* with its desired value, as 'encrypted' when its name contains KEY,      *)
(* SECRET or TOKEN in capitals and as 'plain' otherwise.  pushToConvex     *)
(* classifies nothing: after a successful run every desired variable is    *)
(* held with its desired value, whatever its name.                         *)
(***************************************************************************)
C11_VercelEncryptsByName ==
  (Done /\ outcome = "success") =>
    /\ Desired(envVars) \subseteq ScopeVars
    /\ provider = "vercel" =>
         \A k \in KeySet(envVars) : StoredClass(k) = {ClassOfName(k)}

C11_Witness ==
  /\ provider = "vercel"
  /\ Done
  /\ outcome = "success"
  /\ \E e \in vercelEnvs : e.key = "DB_SECRET" /\ e.type = "encrypted"
  /\ CallsOf({"remove"}) # {}

(***************************************************************************)
(* C12 (as claimed): a failed list call is the last call of the run, which *)
(* ends failed without a set, create or remove call; the error is a        *)
(* ConfigError exactly when the cause of the failure is "not               *)
(* authenticated" or "scope/config not found", and the provider's API      *)
(* error for every other cause.                                            *)
(***************************************************************************)
\* the cause behind the message of a failed list call
CauseOf(stderr) ==
  CASE stderr \in {"you are not logged in", "authentication required", "Not authorized"} ->
         "not authenticated"
    [] stderr \in {"No convex.json found", "Project not found"} -> "not found"
    [] OTHER -> "other"

ListFailureIsFatal(i) ==
  /\ i = Len(calls)
  /\ Done
  /\ outcome = "failed"
  /\ NoMutationYet

C12_ListFailureByCause ==
  \A i \in FailedCalls({"list"}) :
    /\ ListFailureIsFatal(i)
    /\ error.kind = IF CauseOf(calls[i].stderr) \in {"not authenticated", "not found"}
                    THEN "ConfigError"
                    ELSE IF provider = "convex" THEN "ConvexApiError" ELSE "VercelApiError"

(***************************************************************************)
(* C12 (amended): a failed list call is the last call of the run, which    *)
(* ends failed without a set, create or remove call.  In pushToConvex the  *)
(* error is a ConfigError exactly when the message of the failure contains *)
(* "not logged in", "auth" or "No convex.json", and a ConvexApiError       *)
(* otherwise; in pushToVercel it is a VercelApiError whatever the cause.   *)
(***************************************************************************)
\* the messages of the model that contain "not logged in", "auth" or "No convex.json"
ConfigMessages ==
  {"you are not logged in", "authentication required", "No convex.json found",
   "fetch failed: auth-app.convex.cloud unreachable"}

C12_ListFailureByMessage ==
  \A i \in FailedCalls({"list"}) :
    /\ ListFailureIsFatal(i)
    /\ provider = "convex" =>
         error.kind = IF calls[i].stderr \in ConfigMessages
                      THEN "ConfigError" ELSE "ConvexApiError"
    /\ provider = "vercel" => error.kind = "VercelApiError"

C12_Witness ==
  /\ provider = "convex"
  /\ FailedCalls({"list"}) # {}
  /\ calls[Len(calls)].stderr = "No convex.json found"
  /\ error = ConfigError("No convex.json found")
  /\ exitCode = <<1>>

(***************************************************************************)
(* C13: whenever the run has raised a ConfigError (from parseCliArgs, the  *)
(* stdin input, the project id, the token, the empty mapping, the custom   *)
(* environment lookup or the list call), the run has ended failed and no   *)
(* set, create or remove call was issued in it.                            *)
(***************************************************************************)
C13_ConfigErrorBeforeMutation ==
  error.kind = "ConfigError" =>
    /\ Done
    /\ outcome = "failed"
    /\ NoMutationYet

C13_Witness ==
  /\ provider = "vercel"
  /\ target = "qa"
  /\ error = ConfigError("Custom environment not found")
  /\ Len(calls) = 1
  /\ calls[1].op = "customEnvironments"
  /\ calls[1].ok

(***************************************************************************)
(* C14: the process exits with code 1 exactly after an error (ConfigError, *)
(* EnvLoadError, the provider's API error, any other error) and with code  *)
(* 0 after a success, the help display, or a cancellation at the           *)
(* confirmation prompt; a run that has ended and not yet exited is a       *)
(* provider function that has just returned or thrown.                     *)
(***************************************************************************)
ErrorKinds == {"ConfigError", "EnvLoadError", "ConvexApiError", "VercelApiError", "Error"}

C14_ExitCodeByOutcome ==
  /\ exitCode \in {<<>>, <<0>>, <<1>>}
  /\ exitCode = <<1>> => (outcome = "failed" /\ error.kind \in ErrorKinds)
  /\ exitCode = <<0>> => (outcome \in {"success", "help", "cancelled"} /\ error = NoError)
  /\ exitCode # <<>> => Done
  /\ (Done /\ exitCode = <<>>) =>
       (invoked # "none" /\ outcome \in {"failed", "success", "cancelled"})

C14_Witness ==
  /\ outcome = "cancelled"
  /\ answer = "no"
  /\ exitCode = <<0>>

(***************************************************************************)
(* C15: the token pushToVercel works with is the --token argument when one *)
(* was given, otherwise VERCEL_TOKEN when it is set, otherwise what the    *)
(* operator typed at the prompt; the prompt is shown only when neither an  *)
(* argument nor VERCEL_TOKEN is there, and VERCEL_TOKEN is not looked at   *)
(* when an argument was given.                                             *)
(***************************************************************************)
TokenPrompted == "token" \in Range(prompts)

C15_TokenPrecedence ==
  /\ TokenPrompted => (args.token = "" /\ host.VERCEL_TOKEN = "")
  /\ "VERCEL_TOKEN" \in reads => args.token = ""
  /\ token # "" =>
       token = IF args.token # "" THEN args.token
               ELSE IF host.VERCEL_TOKEN # "" THEN host.VERCEL_TOKEN
               ELSE "tok_typed"
  /\ (provider = "vercel" /\ pc \in {"begin", "scope", "list", "confirm", "remove", "create"}) =>
       token # ""

C15_Witness ==
  /\ args.token = "tok_arg"
  /\ host.VERCEL_TOKEN = "tok_env"
  /\ token = "tok_arg"
  /\ prompts = <<>>
  /\ pc = "begin"

(***************************************************************************)
(* C16: .vercel/project.json is read only by a pushToVercel run that was   *)
(* given no --project.  When it is then missing, unreadable, no JSON, or   *)
(* without a string projectId, the run has ended failed with a ConfigError *)
(* before any provider call and any prompt.  With --project the run works  *)
(* with that id and no state of the file makes it fail.                    *)
(***************************************************************************)
\* the file cannot give a project id
BadProjectFile(file) ==
  \/ file.read # "ok"
  \/ file.parse # "ok"
  \/ file.value.type # "object"
  \/ ~file.value.hasProjectId
  \/ file.value.projectId.type # "string"

\* pushToVercel has got past its project id
PastProjectId == invoked = "vercel" /\ pc # "start"

C16_ProjectFileOnlyWithoutId ==
  /\ "project.json" \in reads => (invoked = "vercel" /\ args.project = "")
  /\ (PastProjectId /\ args.project = "" /\ BadProjectFile(host.projectFile)) =>
       /\ Done
       /\ outcome = "failed"
       /\ error = ConfigError("Project ID is required")
       /\ calls = <<>>
       /\ prompts = <<>>
  /\ (PastProjectId /\ args.project # "") =>
       /\ projectId = args.project
       /\ error # ConfigError("Project ID is required")
  /\ (PastProjectId /\ args.project = "" /\ ~BadProjectFile(host.projectFile)) =>
       projectId = host.projectFile.value.projectId.v

C16_Witness ==
  /\ args.project = ""
  /\ host.projectFile = ProjectFile("ok", "ok", JsObject(TRUE, JsNumber))
  /\ "project.json" \in reads
  /\ error = ConfigError("Project ID is required")
  /\ exitCode = <<1>>

(***************************************************************************)
(* C17: with --stdin, once stdin was read and held nothing or only white   *)
(* space, the run has ended failed with the ConfigError "No input received *)
(* from stdin" and exit code 1, no provider function was invoked and no    *)
(* provider call was made.                                                 *)
(***************************************************************************)
C17_EmptyStdinFails ==
  ("stdin" \in reads /\ host.stdinContent \in {"", " \n"}) =>
    /\ args.stdin
    /\ Done
    /\ outcome = "failed"
    /\ error = ConfigError("No input received from stdin")
    /\ exitCode = <<1>>
    /\ invoked = "none"
    /\ calls = <<>>

C17_Witness ==
  /\ args.stdin
  /\ host.stdinContent = " \n"
  /\ "stdin" \in reads
  /\ exitCode = <<1>>
  /\ error.kind = "ConfigError"

(***************************************************************************)
(* C18: in pushToVercel a known target (whatever its case) needs no        *)
(* lookup.  Any other target is looked up once, before every list, remove  *)
(* and create call; when no custom environment has that slug (whatever the *)
(* case) the run has ended failed with a ConfigError without such a call;  *)
(* when one has, its id is the scope: every listed entry to be removed is  *)
(* associated with it, and the variables the run creates are too.          *)
(***************************************************************************)
Lookups == CallsOf({"customEnvironments"})

C18_CustomTargetResolvedOnce ==
  provider = "vercel" =>
    /\ IsKnownTarget(target) => (Lookups = {} /\ customEnvironmentId = "")
    /\ ~IsKnownTarget(target) =>
         /\ Lookups \subseteq {1}
         /\ CallsOf({"list", "remove", "create"}) # {} =>
              /\ Lookups = {1}
              /\ calls[1].ok
         /\ (Lookups = {1} /\ calls[1].ok /\ ScopeOf(target) = "") =>
              /\ Done
              /\ outcome = "failed"
              /\ error = ConfigError("Custom environment not found")
              /\ Len(calls) = 1
         /\ (Lookups = {1} /\ calls[1].ok /\ ScopeOf(target) # "") =>
              /\ customEnvironmentId = ScopeOf(target)
              /\ error.kind # "ConfigError"
              /\ \A n \in 1..Len(targetEnvs) :
                   customEnvironmentId \in targetEnvs[n].customEnvironmentIds
              /\ (Done /\ outcome = "success") =>
                   \A k \in KeySet(envVars) :
                     \E e \in vercelEnvs :
                       /\ e.key = k
                       /\ customEnvironmentId \in e.customEnvironmentIds

C18_Witness ==
  /\ provider = "vercel"
  /\ target = "Staging"
  /\ customEnvironmentId = "env_stg"
  /\ Len(targetEnvs) > 0
  /\ Done
  /\ outcome = "success"
  /\ \E e \in vercelEnvs : e.customEnvironmentIds = {"env_stg"} /\ e.id[1] = "new"

(***************************************************************************)
(* C19 (as claimed): isSupportedProvider is true exactly for the strings   *)
(* "vercel" and "convex"; a command line without provider, or with a       *)
(* provider isSupportedProvider rejects, has ended failed with a           *)
(* ConfigError and exit code 1 once parsed, no env input was read and no   *)
(* provider function invoked.  `--help` breaks it: it is looked at first.  *)
(***************************************************************************)
JsValues ==
  {JsUndefined, JsNull, JsNumber} \cup
  {JsString(str) : str \in {"vercel", "convex", "aws", "Vercel", ""}}

GuardIsExact ==
  \A value \in JsValues :
    isSupportedProvider(value) <=>
      (value.type = "string" /\ value.v \in {"vercel", "convex"})

Parsed == pc # "main"

NoProviderNamed == args.providerInput \notin {JsString("vercel"), JsString("convex")}

RejectedBeforeInput ==
  /\ Done
  /\ outcome = "failed"
  /\ error \in {ConfigError("Provider is required"), ConfigError("Unsupported provider")}
  /\ exitCode = <<1>>
  /\ reads = {}
  /\ invoked = "none"
  /\ calls = <<>>

RemoveCallsFor(k) == {i \in CallsOf({"remove"}) : calls[i].key = k}

(***************************************************************************)
(* C21 (as claimed): for both providers no name gets a second remove call, *)
(* and a run that ended after a failed remove call issued exactly one      *)
(* remove call for every name it planned to remove.                        *)
(***************************************************************************)
C21_RemovalsIndependent ==
  /\ \A k \in VarNames : Cardinality(RemoveCallsFor(k)) <= 1
  /\ (Done /\ FailedCalls({"remove"}) # {}) =>
        \A k \in ToRemove : Cardinality(RemoveCallsFor(k)) = 1

(***************************************************************************)
(* C21 (amended): no name gets a second remove call.  In pushToConvex a    *)
(* run that ended after a failed remove call issued exactly one remove     *)
(* call for every key of keysToRemove, in the order of keysToRemove.  In   *)
(* pushToVercel a failed remove call is the last call of the run: the      *)
(* entries after it in targetEnvs get no remove call.                      *)
(***************************************************************************)
C21_ConvexIndependentVercelStops ==
  /\ \A k \in VarNames : Cardinality(RemoveCallsFor(k)) <= 1
  /\ (provider = "convex" /\ Done /\ FailedCalls({"remove"}) # {}) =>
        /\ Cardinality(CallsOf({"remove"})) = Len(keysToRemove)
        /\ \A j \in 1..Len(keysToRemove) :
              LET i == Len(calls) - Len(keysToRemove) + j
              IN  calls[i].op = "remove" /\ calls[i].key = keysToRemove[j]
  /\ (provider = "vercel" /\ FailedCalls({"remove"}) # {}) =>
        /\ Done
        /\ FailedCalls({"remove"}) = {Len(calls)}
        /\ calls[Len(calls)].id = targetEnvs[idx].id
        /\ \A j \in (idx + 1)..Len(targetEnvs) :
              RemoveCallsFor(targetEnvs[j].key) = {}

C21_Witness ==
  /\ provider = "convex"
  /\ Done
  /\ Len(keysToRemove) = 2
  /\ Cardinality(CallsOf({"remove"})) = 2
  /\ \E i \in FailedCalls({"remove"}) :
        /\ calls[i].key = keysToRemove[1]
        /\ calls[i + 1].op = "remove"
        /\ calls[i + 1].key = keysToRemove[2]

\* the upsert calls of the run, in the order they were issued
UpsertCalls == SelectSeq(calls, LAMBDA c : c.op \in {"set", "create"})

(***************************************************************************)
(* C22 (as claimed): for both providers the upsert calls are issued one    *)
(* per desired key, in the order of the desired mapping: the j-th upsert   *)
(* call is for the j-th key, it follows the completed calls of the keys    *)
(* before it, and a successful run issued one for every key.               *)
(***************************************************************************)
C22_UpsertsOnePerKeyInOrder ==
  /\ Len(UpsertCalls) <= Len(envVars)
  /\ \A j \in 1..Len(UpsertCalls) :
        /\ UpsertCalls[j].key = envVars[j].key
        /\ j > 1 => UpsertCalls[j - 1].ok
  /\ (Done /\ outcome = "success") => Len(UpsertCalls) = Len(envVars)

(***************************************************************************)
(* C22 (amended): pushToConvex issues one set call per desired key, in the *)
(* order of the desired mapping, each after the set call of the key before *)
(* it has completed with success, and a successful run issued one for      *)
(* every key.  pushToVercel issues no call per key: at most one create     *)
(* call, which names no single key, carries the whole mapping, and after   *)
(* its success every desired variable is served in the scope.              *)
(***************************************************************************)
C22_ConvexOnePerKeyVercelOneCall ==
  /\ provider = "convex" =>
        /\ CallsOf({"create"}) = {}
        /\ Len(UpsertCalls) <= Len(envVars)
        /\ \A j \in 1..Len(UpsertCalls) :
              /\ UpsertCalls[j].key = envVars[j].key
              /\ j > 1 => UpsertCalls[j - 1].ok
        /\ pc = "set" => Len(UpsertCalls) = idx - 1
        /\ (Done /\ outcome = "success") => Len(UpsertCalls) = Len(envVars)
  /\ provider = "vercel" =>
        /\ CallsOf({"set"}) = {}
        /\ Len(UpsertCalls) <= 1
        /\ \A j \in 1..Len(UpsertCalls) : UpsertCalls[j].key = ""
        /\ (Done /\ outcome = "success") =>
              /\ Len(UpsertCalls) = 1
              /\ UpsertCalls[1].ok
              /\ Desired(envVars) \subseteq ScopeVars

C22_Witness ==
  /\ provider = "convex"
  /\ Len(envVars) = 2
  /\ Len(UpsertCalls) = 2
  /\ UpsertCalls[1].key = envVars[1].key /\ UpsertCalls[1].ok
  /\ UpsertCalls[2].key = envVars[2].key /\ UpsertCalls[2].ok

\* the names the list call of the run returned for the scope
ListedNames ==
  IF provider = "convex"
  THEN Range(currentEnvKeys)
  ELSE {targetEnvs[i].key : i \in 1..Len(targetEnvs)}

(***************************************************************************)
(* C23 (as claimed): at every state of a run after its list call, ended    *)
(* runs included, every desired name that the list call returned for the   *)
(* scope is still present in the scope.  pushToVercel breaks it: it        *)
(* deletes every listed entry, the desired ones included, before the       *)
(* create call, and a failure in between leaves them deleted.              *)
(***************************************************************************)
C23_DesiredNeverAbsent ==
  Planned => \A k \in KeySet(envVars) \cap ListedNames : k \in ScopeNames

(***************************************************************************)
(* C26 (as claimed): a pushToVercel run that failed on a remove call or on *)
(* the create call leaves the scope as it was: every entry its list call   *)
(* returned for the scope is still in the project, and the scope holds no  *)
(* other variable than those.  pushToVercel breaks it: the removals made   *)
(* before the failure are not undone.                                      *)
(***************************************************************************)
C26_FailedVercelRunLeavesScope ==
  (provider = "vercel" /\ Done /\ outcome = "failed"
     /\ FailedCalls({"remove", "create"}) # {}) =>
    /\ Range(targetEnvs) \subseteq vercelEnvs
    /\ {e \in InScope(vercelEnvs, ScopeOf(target)) : e.target.isArray}
          \subseteq Range(targetEnvs)

\* the variables the project serves in an environment
VarsIn(scope) == {<<e.key, e.value>> : e \in InScope(vercelEnvs, scope)}

(***************************************************************************)
(* C25 (as claimed): at every state of a pushToVercel run for a target,    *)
(* ended runs included, an entry that the list call returned and that is   *)
(* also tagged with another target is still served, name and value, in     *)
(* that other target.  pushToVercel breaks it: removeProjectEnv deletes    *)
(* the entry by id, for all its targets.                                   *)
(***************************************************************************)
C25_OtherTargetsUnchanged ==
  (provider = "vercel" /\ Planned) =>
    \A i \in 1..Len(targetEnvs) :
       \A other \in ServedIn(targetEnvs[i]) \ {ScopeOf(target)} :
          <<targetEnvs[i].key, targetEnvs[i].value>> \in VarsIn(other)

(***************************************************************************)
(* C27 (as claimed): a run with skipConfirmation never asks the operator   *)
(* anything, whatever the provider and the token and project               *)
(* configuration.                                                          *)
(***************************************************************************)
C27_YesNeverPrompts ==
  skipConfirmation => prompts = <<>>

(***************************************************************************)
(* C27 (amended): a run with skipConfirmation never asks for confirmation  *)
(* and never reads an answer; pushToConvex then asks nothing at all, and   *)
(* pushToVercel asks one thing at most, the token, and only when neither   *)
(* --token nor VERCEL_TOKEN holds one.                                     *)
(***************************************************************************)
C27_YesSkipsConfirmationOnly ==
  skipConfirmation =>
    /\ "confirm" \notin Range(prompts)
    /\ answer = NoAnswer
    /\ provider = "convex" => prompts = <<>>
    /\ provider = "vercel" =>
          /\ prompts \in {<<>>, <<"token">>}
          /\ prompts = <<"token">> => (args.token = "" /\ host.VERCEL_TOKEN = "")
          /\ (pc \in {"begin", "scope", "list", "remove", "create"}
                /\ args.token = "" /\ host.VERCEL_TOKEN = "") => prompts = <<"token">>

C27_Witness ==
  /\ skipConfirmation
  /\ provider = "vercel"
  /\ host.VERCEL_TOKEN # ""
  /\ args.token = ""
  /\ Len(targetEnvs) > 0
  /\ CallsOf({"remove"}) # {}
  /\ Done
  /\ outcome = "success"
  /\ prompts = <<>>

\* the error types a provider function documents
ClassifiedKinds ==
  IF provider = "convex" THEN {"ConfigError", "ConvexApiError"}
  ELSE {"ConfigError", "VercelApiError"}

(***************************************************************************)
(* C29 (as claimed): a provider function that was called and failed, at    *)
(* whichever step, failed with a ConfigError or with the API error of its  *)
(* provider.  pushToVercel breaks it: the token is awaited before the try  *)
(* block, and a rejection of the token prompt leaves the function as the   *)
(* plain Error it is.                                                      *)
(***************************************************************************)
C29_OnlyClassifiedErrors ==
  (invoked # "none" /\ Done /\ outcome = "failed") => error.kind \in ClassifiedKinds

(***************************************************************************)
(* Runs in which every step that can be taken is taken in the end: each    *)
(* provider call returns, each prompt is answered, and the second run of   *)
(* Rerun is started                                                        *)
(***************************************************************************)
FairSpec == Init /\ [][Next]_vars /\ WF_vars(Next)

\* the process has exited
Exited == Done /\ exitCode # <<>>

\* the calls of the run for one operation and one variable or entry
CallsFor(op, key, id) ==
  {i \in CallsOf({op}) : calls[i].key = key /\ calls[i].id = id}

\* no call is issued twice: one list, one create, one set per desired key,
\* one remove per listed entry, and nothing else
CallsWithinPlan ==
  /\ Cardinality(CallsOf({"list"})) <= 1
  /\ Cardinality(CallsOf({"create"})) <= 1
  /\ Cardinality(CallsOf({"customEnvironments"})) <= 1
  /\ \A i \in CallsOf({"set"}) :
        /\ calls[i].key \in KeySet(envVars)
        /\ CallsFor("set", calls[i].key, NoId) = {i}
  /\ \A i \in CallsOf({"remove"}) :
        /\ CallsFor("remove", calls[i].key, calls[i].id) = {i}
        /\ IF provider = "convex"
           THEN calls[i].key \in Range(keysToRemove)
           ELSE \E j \in 1..Len(targetEnvs) :
                   targetEnvs[j].id = calls[i].id /\ targetEnvs[j].key = calls[i].key

(***************************************************************************)
(* C30: when every provider call returns and every prompt is answered, a   *)
(* run ends and the process exits, for good; an ended run has one outcome, *)
(* success, cancelled or failed, which no later step of the run changes;   *)
(* and the run issues at most one list call, one set call per desired key  *)
(* (one create call for Vercel) and one remove call per listed entry of    *)
(* the scope, none of them twice.                                          *)
(***************************************************************************)
C30_RunTerminates ==
  /\ <>[]Exited
  /\ [](Done => outcome \in {"success", "cancelled", "failed"})
  /\ [][(Done /\ Done') => outcome' = outcome]_vars
  /\ []CallsWithinPlan

C30_Witness ==
  /\ Exited
  /\ outcome = "success"
  /\ provider = "convex"
  /\ Len(envVars) = 1
  /\ Len(keysToRemove) = 2
  /\ FailedCalls({"remove"}) # {}
  /\ Len(calls) = 4

(***************************************************************************)
(* Two processes on one scope: while the run above goes on, a second       *)
(* dotenv-push process with --yes and its own desired mapping runs the     *)
(* same provider function against the same store, each of its provider     *)
(* calls succeeding, its steps interleaved with the steps of the first in  *)
(* any order.  The provider serves one call at a time.                     *)
(***************************************************************************)
\* everything of the first process: a step of the second leaves it alone
firstVars ==
  <<provider, envVars, target, skipConfirmation, pc, customEnvironmentId,
    currentEnvKeys, keysToRemove, targetEnvs, idx, calls, answer, prompts,
    warnings, outcome, error, summary, runNo, prev, args, host, invoked,
    exitCode, helpShown, reads, projectId, token>>

\* the custom environment id the second process resolves for the target
PeerCustomId ==
  LET match == FindCustomEnvironment(CustomEnvironments, target)
  IN  IF IsKnownTarget(target) \/ match = <<>> THEN "" ELSE match[1].id

\* the second process lists the scope and makes its plan
PeerList ==
  /\ peer.pc = "list"
  /\ IF provider = "convex"
     THEN peer' = [peer EXCEPT
                     !.plan = KeysToRemove(ParseEnvKeys(ConvexEnvList(convexEnv)),
                                           peer.envVars),
                     !.idx = 1, !.pc = "set"]
     ELSE IF ~IsKnownTarget(target) /\ PeerCustomId = ""
          THEN peer' = [peer EXCEPT !.pc = "failed"]
          ELSE LET plan == TargetEnvs(Listed(vercelEnvs), target, PeerCustomId)
               IN  peer' = [peer EXCEPT !.plan = plan, !.idx = 1,
                                        !.pc = AfterConfirm(plan)]
  /\ UNCHANGED <<convexEnv, vercelEnvs, firstVars>>

\* the second process upserts: one `env set` of pushToConvex, or the
\* createProjectEnv call of pushToVercel
PeerUpsert ==
  /\ IF provider = "convex"
     THEN /\ peer.pc = "set"
          /\ peer.idx <= Len(peer.envVars)
          /\ LET kv == Entries(peer.envVars)[peer.idx]
             IN  convexEnv' = [convexEnv EXCEPT ![kv.key] = kv.value]
          /\ peer' = IF peer.idx < Len(peer.envVars)
                     THEN [peer EXCEPT !.idx = peer.idx + 1]
                     ELSE IF Len(peer.plan) > 0
                          THEN [peer EXCEPT !.idx = 1, !.pc = "remove"]
                          ELSE [peer EXCEPT !.pc = "done"]
          /\ UNCHANGED vercelEnvs
     ELSE /\ peer.pc = "create"
          /\ vercelEnvs' = UpsertAll(vercelEnvs,
                                     RequestBody(peer.envVars, target, PeerCustomId))
          /\ peer' = [peer EXCEPT !.pc = "done"]
          /\ UNCHANGED convexEnv
  /\ UNCHANGED firstVars

\* the second process removes the next key or entry of its plan
PeerRemove ==
  /\ peer.pc = "remove"
  /\ peer.idx <= Len(peer.plan)
  /\ IF provider = "convex"
     THEN /\ convexEnv' = [convexEnv EXCEPT ![peer.plan[peer.idx]] = NoVal]
          /\ peer' = IF peer.idx < Len(peer.plan)
                     THEN [peer EXCEPT !.idx = peer.idx + 1]
                     ELSE [peer EXCEPT !.pc = "done"]
          /\ UNCHANGED vercelEnvs
     ELSE /\ LET env == peer.plan[peer.idx]
             IN  vercelEnvs' = IF env.id = NoId THEN vercelEnvs
                               ELSE {e \in vercelEnvs : e.id # env.id}
          /\ peer' = IF peer.idx < Len(peer.plan)
                     THEN [peer EXCEPT !.idx = peer.idx + 1]
                     ELSE [peer EXCEPT !.pc = "create"]
          /\ UNCHANGED convexEnv
  /\ UNCHANGED firstVars

\* the desired mappings of the two processes: one or two variables
ConcEnvVars == {ev \in EnvVarsInputs : Len(ev) >= 1 /\ ev[1].value = "x"}

PeerEnvVars ==
  {<<[key |-> n, value |-> "k=v"]>> : n \in Names}

ConcConvexStores == {s \in ConvexStores : \A n \in Names : s[n] # "k=v"}

\* the projects of these runs: a production entry, one also served in
\* preview, one whose target is a single string, two of a custom environment
ConcVercelStores ==
  {envs \in VercelStores :
     \A e \in envs : e.id \in {<<"e", "DB_URL", "prod">>, <<"e", "OLD_VAR", "prodprev">>,
                                <<"e", "DB_URL", "prodstr">>, <<"e", "DB_URL", "stg">>,
                                <<"e", "OLD_VAR", "stg">>}}

ConcTargets == {"production", "Staging"}

ConcInit ==
  /\ Start({Args(FALSE, JsString(p), "prj_1", "tok_arg", FALSE) :
              p \in Range(SUPPORTED_PROVIDERS)},
           {Host("", ProjectFile("ENOENT", "", NoObject), "", "ok")},
           ConcEnvVars, ConcConvexStores, ConcVercelStores, ConcTargets)
  /\ peer \in {[pc |-> "list", envVars |-> ev, plan |-> <<>>, idx |-> 1] :
                 ev \in PeerEnvVars}

ConcNext ==
  \/ ParseCliArgs
  \/ ReadEnvVars
  \/ ConvexCheckEmpty
  \/ ConvexList
  \/ ConvexConfirm
  \/ ConvexSet
  \/ ConvexRemove
  \/ VercelProjectId
  \/ VercelToken
  \/ VercelCheckEmpty
  \/ VercelResolveScope
  \/ VercelList
  \/ VercelConfirm
  \/ VercelRemove
  \/ VercelCreate
  \/ MainExit
  \/ PeerList
  \/ PeerUpsert
  \/ PeerRemove

ConcSpec == ConcInit /\ [][ConcNext]_vars

\* a step of the first process that issued a provider call
FirstCalled == calls' # calls

\* the ids of the entries pushToVercel listed for the scope
ListedIds == {targetEnvs[i].id : i \in 1..Len(targetEnvs)}

\* a step of the first process after its list call leaves alone what its plan
\* does not name: the names that are neither listed nor desired
PlanIsTheFrame ==
  (Planned /\ FirstCalled) =>
    /\ \A k \in VarNames \ (ListedNames \cup KeySet(envVars)) :
          convexEnv'[k] = convexEnv[k]
    /\ \A e \in vercelEnvs :
          (e.id \notin ListedIds /\ e.key \notin KeySet(envVars)) => e \in vercelEnvs'

\* whoever writes a variable last determines its value
LastWriterWins ==
  /\ (FirstCalled /\ calls'[Len(calls')].op = "set" /\ calls'[Len(calls')].ok) =>
        LET key == calls'[Len(calls')].key
        IN  <<key, convexEnv'[key]>> \in Desired(envVars)
  /\ (FirstCalled /\ calls'[Len(calls')].op = "create" /\ calls'[Len(calls')].ok) =>
        \A kv \in Desired(envVars) :
           \E e \in InScope(vercelEnvs', ScopeOf(target)) : <<e.key, e.value>> = kv
  /\ (peer.pc = "set" /\ peer' # peer) =>
        LET kv == peer.envVars[peer.idx]
        IN  convexEnv'[kv.key] = kv.value
  /\ (peer.pc = "create" /\ peer' # peer) =>
        \A kv \in Desired(peer.envVars) :
           \E e \in InScope(vercelEnvs', ScopeOf(target)) : <<e.key, e.value>> = kv

(***************************************************************************)
(* C24: a run makes one list call at most and its plan never changes once  *)
(* made, whatever a second writer does to the scope meanwhile; a step of   *)
(* the run after the list call leaves alone every variable that is neither *)
(* listed nor desired, so a name added by the other writer after the list  *)
(* call and absent from the desired mapping is not removed by this run;    *)
(* and a write of either party overwrites what the other wrote.            *)
(***************************************************************************)
C24_SingleListNeverReread ==
  /\ [](Cardinality(CallsOf({"list"})) <= 1)
  /\ [][(Planned /\ Planned') =>
           /\ currentEnvKeys' = currentEnvKeys
           /\ keysToRemove' = keysToRemove
           /\ targetEnvs' = targetEnvs]_vars
  /\ [][PlanIsTheFrame]_vars
  /\ [][LastWriterWins]_vars

\* a successful run without warnings has ended, and the scope holds a name
\* the other writer added after the list call, which is not desired
C24_Witness ==
  /\ Done
  /\ outcome = "success"
  /\ warnings = <<>>
  /\ peer.pc = "done"
  /\ CallsOf({"remove"}) # {}
  /\ \E kv \in Desired(peer.envVars) :
        /\ kv[1] \notin KeySet(envVars)
        /\ kv[1] \notin ListedNames
        /\ kv \in ScopeVars

\* both processes have ended, with success and without a warning
BothSucceeded ==
  /\ Done
  /\ outcome = "success"
  /\ warnings = <<>>
  /\ peer.pc = "done"

(***************************************************************************)
(* C28 (as claimed): when two runs on one scope, interleaved in any order, *)
(* have both ended with success and without warnings, the scope holds      *)
(* exactly the desired mapping of the one or exactly that of the other.    *)
(***************************************************************************)
C28_FinalIsOneOfTheTwo ==
  BothSucceeded => ScopeVars \in {Desired(envVars), Desired(peer.envVars)}

(***************************************************************************)
(* C28 (amended): when both runs have ended with success and without       *)
(* warnings, every variable of the scope is a variable of one of the two   *)
(* desired mappings (for pushToVercel: besides the entries it never        *)
(* removes, those without id or with a target that is no array), and a     *)
(* name desired by both runs is in the scope; the scope need not equal     *)
(* either mapping.                                                         *)
(***************************************************************************)
C28_FinalIsAMixOfTheTwo ==
  BothSucceeded =>
    /\ provider = "convex" =>
          ScopeVars \subseteq (Desired(envVars) \cup Desired(peer.envVars))
    /\ provider = "vercel" =>
          \A e \in InScope(vercelEnvs, ScopeOf(target)) :
             \/ <<e.key, e.value>> \in (Desired(envVars) \cup Desired(peer.envVars))
             \/ e.id = NoId
             \/ ~e.target.isArray
    /\ \A k \in KeySet(envVars) \cap KeySet(peer.envVars) : k \in ScopeNames

C28_Witness ==
  /\ BothSucceeded
  /\ provider = "convex"
  /\ KeySet(envVars) \cap KeySet(peer.envVars) = {}
  /\ ScopeVars = Desired(envVars) \cup Desired(peer.envVars)

====
